---- MODULE Spec2Model ----
(***************************************************************************)
(* A model of TSPSolver (src/tsp_solver.py): construction with matrix      *)
(* validation, the tour cost evaluator, the exact subset-DP solver         *)
(* (held_karp), nearest_neighbor, the christofides pipeline, two_opt and   *)
(* the solve() dispatcher.                                                 *)
(*                                                                         *)
(* Conventions.  City indices are 0-based as in the source.  A Python list *)
(* is a TLA+ sequence, so the element at Python index p of list t is       *)
(* t[p + 1] (operator At); a dict keyed by 0..k-1 is the list of its values *)
(* in key order.  A numpy 2-D array is a function from row index 0..r-1 to *)
(* a function from column index 0..c-1.  Edge costs are                    *)
(* non-negative integers, on which Python's float additions are exact;     *)
(* float('inf') is the value Inf.  execution_time is a wall-clock          *)
(* difference that no algorithm reads; the Result records of the model     *)
(* carry the other six fields.                                             *)
(***************************************************************************)
EXTENDS Integers, Sequences, FiniteSets, TLC

VARIABLES
    distance_matrix,  \* self.distance_matrix: the array handed to __init__
    n,                \* self.n = len(distance_matrix)
    pc,               \* "new" | "ready" | "returned" | "invalid"
    call,             \* the entrypoint call in progress / just returned
    result,           \* its outcome: a Result record or an error record
    trace,            \* the solver methods the call ran, in order
    dp,               \* the DP table of held_karp as left by the call
    locals,           \* the locals of christofides / two_opt at its return
    failed            \* history: an earlier call on this solver has raised

vars == <<distance_matrix, n, pc, call, result, trace, dp, locals, failed>>

---------------------------------------------------------------------------
(* Bounds of the model                                                     *)

\* largest edge cost in the enumerated matrices
MaxW == 2
\* largest explicit iteration budget handed to two_opt
MaxIter == 2
\* instances of at most this many cities are called with every start city,
\* every seed tour and every budget
SmallN == 5

---------------------------------------------------------------------------
(* Program constants                                                       *)

\* float('inf'); every finite cost of the model is >= 0
Inf == -1
\* held_karp refuses more than this many cities
HK_MAX_CITIES == 20
\* solve("auto"): largest n sent to held_karp
AUTO_EXACT_MAX == 15
\* solve("auto"): largest n sent to christofides
AUTO_APPROX_MAX == 100
\* default of two_opt's max_iterations
DEFAULT_MAX_ITERATIONS == 1000
\* None, where the other values are strings
None == "None"
\* an Optional[List[int]] argument: {} for None, {t} for the list t
NoList == {}
Some(t) == {t}

---------------------------------------------------------------------------
(* Python / numpy primitives                                               *)

At(t, p) == t[p + 1]

Range(k) == 0 .. (k - 1)

\* the list given as a function on 1..k; SubSeq makes TLC hold it as an
\* enumerated tuple instead of an unevaluated function expression
Tuple(s) == SubSeq(s, 1, Len(s))

\* the member of the one-element set S.  A loop is run in two halves as
\* The({second half from st : st \in {first half}}): the first half is then
\* evaluated to a value before the second is entered, which keeps the
\* nesting of a long loop shallow
The(S) == CHOOSE r \in S : TRUE

\* list(range(k))
RangeList(k) == Tuple([p \in 1..k |-> p - 1])

\* t[a:b] for 0 <= a, with Python's clamping of b to len(t)
Slice(t, a, b) == SubSeq(t, a + 1, IF b < Len(t) THEN b ELSE Len(t))

\* t[::-1]
Reversed(t) == Tuple([p \in 1..Len(t) |-> t[Len(t) + 1 - p]])

\* x + y and x < y on floats, with inf
PyAdd(x, y) == IF x = Inf \/ y = Inf THEN Inf ELSE x + y
PyLt(x, y) == IF x = Inf THEN FALSE ELSE IF y = Inf THEN TRUE ELSE x < y

Shape0(a) == Cardinality(DOMAIN a)
Shape1(a) == Cardinality(DOMAIN a[0])

ValueError(msg) == [error |-> "ValueError", message |-> msg]
IsError(r) == "error" \in DOMAIN r

---------------------------------------------------------------------------
(* TSPSolver.validate_input and TSPSolver.calculate_tour_cost              *)

ValidateDiagonalBeforeSize(a, len) ==
    IF Shape0(a) # Shape1(a)
    THEN ValueError("Distance matrix must be square")
    ELSE IF ~(\A i \in Range(Shape0(a)) : a[i][i] = 0)
    THEN ValueError("Diagonal elements must be zero")
    ELSE IF len < 2
    THEN ValueError("Need at least 2 cities")
    ELSE [ok |-> TRUE]

\* the checks of validate_input in their order; "ok" when none raises
validate_input(a, len) ==
    IF Shape0(a) # Shape1(a)
    THEN ValueError("Distance matrix must be square")
    ELSE IF len < 2
    THEN ValueError("Need at least 2 cities")
    ELSE IF ~(\A i \in Range(Shape0(a)) : a[i][i] = 0)
    THEN ValueError("Diagonal elements must be zero")
    ELSE [ok |-> TRUE]

RECURSIVE TourCostLoop(_, _, _, _)
\* what the passes i = lo, ..., hi of the loop of calculate_tour_cost add to
\* cost: the sum of the edges leaving the positions lo..hi of the tour, the
\* one from the last position leading back to the first (the sum of a run of
\* passes is the sum of its two halves, which keeps evaluation shallow)
TourCostLoop(m, tour, lo, hi) ==
    IF lo > hi THEN 0
    ELSE IF lo = hi THEN m[At(tour, lo)][At(tour, (lo + 1) % Len(tour))]
    ELSE TourCostLoop(m, tour, lo, (lo + hi) \div 2)
         + TourCostLoop(m, tour, (lo + hi) \div 2 + 1, hi)

OpenPathCost(m, tour) == TourCostLoop(m, tour, 0, Len(tour) - 2)

calculate_tour_cost(m, tour) == TourCostLoop(m, tour, 0, Len(tour) - 1)

---------------------------------------------------------------------------
(* Python sets of small non-negative ints.  CPython hashes such an int to  *)
(* itself and keeps a set in an open-addressing table; iteration, min()    *)
(* and pop() walk the table in slot order.  A set is modelled by its       *)
(* table: the list of its slots, each {} (free) or {key}.                  *)

SetMin(S) == CHOOSE x \in S : \A y \in S : x <= y

Slots(t) == {k \in Range(Len(t)) : At(t, k) # {}}
KeyAt(t, k) == CHOOSE x \in At(t, k) : TRUE
Keys(t) == UNION {At(t, k) : k \in Range(Len(t))}
EmptyTable(size) == Tuple([p \in 1..size |-> {}])

RECURSIVE TableInsert(_, _, _, _)
\* the probe sequence of an insertion: up to 9 linear probes from slot i
\* when they fit in the table, then i = (5 i + 1 + perturb) mod size with
\* perturb shifted right by 5 bits
TableInsert(t, key, i, perturb) ==
    LET mask == Len(t) - 1
        probes == IF i + 9 <= mask THEN 9 ELSE 0
        free == {k \in i..(i + probes) : At(t, k) = {}}
    IN  IF free # {} THEN [t EXCEPT ![SetMin(free) + 1] = {key}]
        ELSE TableInsert(t, key,
                         (i * 5 + 1 + (perturb \div 32)) % (mask + 1),
                         perturb \div 32)

RECURSIVE TableSize(_, _)
\* the smallest power of two, from 8, above minused
TableSize(size, minused) ==
    IF size > minused THEN size ELSE TableSize(2 * size, minused)

RECURSIVE TableCopy(_, _, _, _)
\* a resize: the keys in slots lo..hi of the old table inserted, in slot
\* order, in the table new (the range is halved to keep the nesting shallow)
TableCopy(old, new, lo, hi) ==
    IF lo > hi THEN new
    ELSE IF lo = hi
    THEN IF At(old, lo) = {} THEN new
         ELSE TableInsert(new, KeyAt(old, lo), KeyAt(old, lo) % Len(new),
                          KeyAt(old, lo))
    ELSE The({TableCopy(old, half, (lo + hi) \div 2 + 1, hi) :
             half \in {TableCopy(old, new, lo, (lo + hi) \div 2)}})

\* one add: insert, then grow to more than 4 * used slots once
\* fill * 5 >= mask * 3
TableAdd(t, key) ==
    LET size == Len(t)
        t1 == TableInsert(t, key, key % size, key)
        used == Cardinality(Slots(t1))
    IN  IF key \in Keys(t) THEN t
        ELSE IF used * 5 < (size - 1) * 3 THEN t1
        ELSE TableCopy(t1, EmptyTable(TableSize(8, used * 4)), 0, size - 1)

RECURSIVE TableOf(_, _, _, _)
\* the table t after adding keys[lo], ..., keys[hi] in this order
TableOf(keys, t, lo, hi) ==
    IF lo > hi THEN t
    ELSE IF lo = hi THEN TableAdd(t, keys[lo])
    ELSE The({TableOf(keys, half, (lo + hi) \div 2 + 1, hi) :
             half \in {TableOf(keys, t, lo, (lo + hi) \div 2)}})

\* set(keys)
PySet(keys) == TableOf(keys, EmptyTable(8), 1, Len(keys))

\* s.remove(x): the other members keep their slots
SetRemove(t, x) == Tuple([p \in 1..Len(t) |-> t[p] \ {x}])

\* s.pop(): the member in the first occupied slot (the search starts at the
\* slot after the last pop, and every slot before that one is free)
SetPop(t) == KeyAt(t, SetMin(Slots(t)))

PyMax(t, key) ==
    LET most == -SetMin({-key[KeyAt(t, k)] : k \in Slots(t)})
    IN  KeyAt(t, SetMin({k \in Slots(t) : key[KeyAt(t, k)] = most}))

\* min(s, key=K): the first member in slot order whose key is least
PyMin(t, key) ==
    LET least == SetMin({key[KeyAt(t, k)] : k \in Slots(t)})
    IN  KeyAt(t, SetMin({k \in Slots(t) : key[KeyAt(t, k)] = least}))

---------------------------------------------------------------------------
(* TSPSolver.nearest_neighbor                                              *)

NoClosingEdge(m, current, start) == 0

\* the closing edge added after the loop
NNClosingEdge(m, current, start) == m[current][start]

\* one pass of the while loop of nearest_neighbor;
\* st = [unvisited, tour, current, total_cost]
NNBody(m, st) ==
    LET nearest == PyMin(st.unvisited, m[st.current])
    IN  [unvisited |-> SetRemove(st.unvisited, nearest),
         tour |-> Append(st.tour, nearest),
         current |-> nearest,
         total_cost |-> st.total_cost + m[st.current][nearest]]

RECURSIVE NNLoop(_, _, _)
\* while unvisited: ..., for at most `passes` passes (run by halves)
NNLoop(m, st, passes) ==
    IF passes = 0 \/ Slots(st.unvisited) = {} THEN st
    ELSE IF passes = 1 THEN NNBody(m, st)
    ELSE The({NNLoop(m, half, passes - passes \div 2) :
             half \in {NNLoop(m, st, passes \div 2)}})

MakeResultWithoutRatio(tour, cost, algorithm, k, is_optimal, ratio) ==
    [tour |-> tour, cost |-> cost, algorithm |-> algorithm, num_cities |-> k,
     is_optimal |-> is_optimal, approximation_ratio |-> None]

MakeResult(tour, cost, algorithm, k, is_optimal, ratio) ==
    [tour |-> tour, cost |-> cost, algorithm |-> algorithm, num_cities |-> k,
     is_optimal |-> is_optimal, approximation_ratio |-> ratio]

\* every pass removes one city from unvisited, so k passes end the loop
nearest_neighbor(m, k, start) ==
    LET st == NNLoop(m, [unvisited |-> SetRemove(PySet(RangeList(k)), start),
                         tour |-> <<start>>, current |-> start, total_cost |-> 0],
                     k)
    IN  MakeResult(st.tour, st.total_cost + NNClosingEdge(m, st.current, start),
                   "Nearest Neighbor", k, FALSE, None)

---------------------------------------------------------------------------
(* TSPSolver.held_karp and TSPSolver.reconstruct_path_hk                   *)
(* The DP table dp maps <<bits, last>> to <<min_cost, prev_city>>.         *)

RECURSIVE Pow2(_)
Pow2(i) == IF i = 0 THEN 1 ELSE 2 * Pow2(i - 1)

RECURSIVE SumBits(_, _)
\* sum(1 << i for i in subset)
SumBits(subset, p) ==
    IF p > Len(subset) THEN 0 ELSE Pow2(subset[p]) + SumBits(subset, p + 1)

\* mask & ~(1 << b)
ClearBit(mask, b) ==
    IF (mask \div Pow2(b)) % 2 = 1 THEN mask - Pow2(b) ELSE mask

RECURSIVE combinations(_, _, _)
\* itertools.combinations(range(lo, k), r): the r-subsets as ascending
\* tuples, in lexicographic order
combinations(lo, k, r) ==
    IF r = 0 THEN << <<>> >>
    ELSE IF k - lo < r THEN <<>>
    ELSE LET first == combinations(lo + 1, k, r - 1)
         IN  Tuple([p \in 1..Len(first) |-> <<lo>> \o first[p]])
             \o combinations(lo + 1, k, r)

DpGetZero(table, key) == IF key \in DOMAIN table THEN table[key] ELSE <<0, -1>>

\* dp.get(key, (float('inf'), -1))
DpGet(table, key) == IF key \in DOMAIN table THEN table[key] ELSE <<Inf, -1>>

HKTooLargeFromLimit(k) == k >= HK_MAX_CITIES

\* held_karp's guard on the instance size
HKTooLarge(k) == k > HK_MAX_CITIES

HKTakeLast(cost, min_cost) == TRUE

\* the test that replaces the running minimum
HKBetter(cost, min_cost) == PyLt(cost, min_cost)

RECURSIVE HKPrevLoop(_, _, _, _, _, _, _, _)
\* for prev in subset: ... ; yields (min_cost, min_prev)
HKPrevLoop(m, table, subset, last, prev_bits, p, min_cost, min_prev) ==
    IF p > Len(subset) THEN <<min_cost, min_prev>>
    ELSE LET prev == subset[p]
             prev_cost == DpGet(table, <<prev_bits, prev>>)[1]
             cost == PyAdd(prev_cost, m[prev][last])
         IN  IF prev = last
             THEN HKPrevLoop(m, table, subset, last, prev_bits, p + 1,
                             min_cost, min_prev)
             ELSE IF HKBetter(cost, min_cost)
             THEN HKPrevLoop(m, table, subset, last, prev_bits, p + 1, cost, prev)
             ELSE HKPrevLoop(m, table, subset, last, prev_bits, p + 1,
                             min_cost, min_prev)

RECURSIVE HKLastLoop(_, _, _, _, _)
\* for last in subset: ... dp[(bits, last)] = (min_cost, min_prev)
HKLastLoop(m, table, subset, bits, p) ==
    IF p > Len(subset) THEN table
    ELSE LET last == subset[p]
         IN  IF last = 0 THEN HKLastLoop(m, table, subset, bits, p + 1)
             ELSE The({HKLastLoop(m, written, subset, bits, p + 1) :
                      written \in
                          {(<<bits, last>> :>
                                HKPrevLoop(m, table, subset, last,
                                           ClearBit(bits, last), 1, Inf, -1))
                           @@ table}})

RECURSIVE HKSubsetLoop(_, _, _, _)
\* for subset in combinations(range(1, n), subset_size - 1): ...
HKSubsetLoop(m, table, combos, p) ==
    IF p > Len(combos) THEN table
    ELSE LET subset == <<0>> \o combos[p]
         IN  The({HKSubsetLoop(m, written, combos, p + 1) :
                  written \in
                      {HKLastLoop(m, table, subset, SumBits(subset, 1), 1)}})

RECURSIVE HKSizeLoop(_, _, _, _)
\* for subset_size in range(2, n + 1): ...
HKSizeLoop(m, k, table, subset_size) ==
    IF subset_size > k THEN table
    ELSE The({HKSizeLoop(m, k, written, subset_size + 1) :
              written \in
                  {HKSubsetLoop(m, table, combinations(1, k, subset_size - 1),
                                1)}})

\* the DP table after the fill: base case dp[(1, 0)] = (0, -1), then the loops
HKTable(m, k) == HKSizeLoop(m, k, <<1, 0>> :> <<0, -1>>, 2)

RECURSIVE HKFinalLoop(_, _, _, _, _, _)
\* for i in range(1, n): the cheapest way back to the start
HKFinalLoop(m, k, table, i, min_cost, last_city) ==
    IF i >= k THEN <<min_cost, last_city>>
    ELSE LET cost == PyAdd(DpGet(table, <<Pow2(k) - 1, i>>)[1], m[i][0])
         IN  IF HKBetter(cost, min_cost)
             THEN HKFinalLoop(m, k, table, i + 1, cost, i)
             ELSE HKFinalLoop(m, k, table, i + 1, min_cost, last_city)

RECURSIVE HKWalkBack(_, _, _, _)
\* the while loop of reconstruct_path_hk
HKWalkBack(table, path, current_mask, current) ==
    IF current = 0 THEN path
    ELSE LET prev == table[<<current_mask, current>>][2]
         IN  IF prev = -1 THEN path
             ELSE HKWalkBack(table, Append(path, prev),
                             ClearBit(current_mask, current), prev)

reconstruct_path_hk(table, mask, last) ==
    Reversed(HKWalkBack(table, <<last>>, mask, last))

\* held_karp: [result, dp]; dp is the empty table when the call raised
\* before creating it
held_karp(m, k) ==
    IF HKTooLarge(k)
    THEN [result |-> ValueError(
              "Held-Karp: Too many cities (max 20 for practical computation)"),
          dp |-> <<>>]
    ELSE LET table == HKTable(m, k)
             best == HKFinalLoop(m, k, table, 1, Inf, -1)
         IN  [result |-> MakeResult(
                  reconstruct_path_hk(table, Pow2(k) - 1, best[2]), best[1],
                  "Held-Karp (Exact DP)", k, TRUE, None),
              dp |-> table]

---------------------------------------------------------------------------
(* TSPSolver.christofides and its stages                                   *)

HeapMax(edges) ==
    CHOOSE e \in edges :
        \A f \in edges :
            \/ f[1] < e[1]
            \/ f[1] = e[1] /\ f[2] < e[2]
            \/ f[1] = e[1] /\ f[2] = e[2] /\ f[3] <= e[3]

\* heapq.heappop on a heap of (weight, u, v) tuples: the least tuple in
\* Python's lexicographic order.  No two tuples of the heap are equal (an
\* edge (u, v) is pushed once, when u joins the tree), so the least tuple
\* is unique whatever the layout of the heap.
HeapMin(edges) ==
    LET w == SetMin({e[1] : e \in edges})
        u == SetMin({e[2] : e \in {f \in edges : f[1] = w}})
        v == SetMin({e[3] : e \in {f \in edges : f[1] = w /\ f[2] = u}})
    IN  <<w, u, v>>

\* one pass of the while loop of compute_mst; st = [mst, visited, edges]
MSTBody(m, k, st) ==
    LET e == HeapMin(st.edges)
        v == e[3]
    IN  IF v \in st.visited
        THEN [st EXCEPT !.edges = @ \ {e}]
        ELSE [mst |-> Append(st.mst, <<e[2], v>>),
              visited |-> st.visited \cup {v},
              edges |-> (st.edges \ {e}) \cup
                        {<<m[v][j], v, j>> : j \in Range(k) \ (st.visited \cup {v})}]

RECURSIVE MSTLoop(_, _, _, _)
\* while len(visited) < self.n and edges: ..., for at most `passes` passes
MSTLoop(m, k, st, passes) ==
    IF passes = 0 \/ ~(Cardinality(st.visited) < k /\ st.edges # {}) THEN st
    ELSE IF passes = 1 THEN MSTBody(m, k, st)
    ELSE The({MSTLoop(m, k, half, passes - passes \div 2) :
             half \in {MSTLoop(m, k, st, passes \div 2)}})

\* Prim's algorithm from city 0; the edges (u, v) in the order they are
\* added.  Every pass pops one entry and fewer than k * k entries are ever
\* pushed, so k * k passes end the loop.
compute_mst(m, k) ==
    MSTLoop(m, k, [mst |-> <<>>, visited |-> {0},
                   edges |-> {<<m[0][j], 0, j>> : j \in 1..(k - 1)}],
            k * k).mst

\* degree[i] after counting both ends of every edge of the list
Degree(edge_list, i) ==
    Cardinality({p \in 1..Len(edge_list) : edge_list[p][1] = i})
    + Cardinality({p \in 1..Len(edge_list) : edge_list[p][2] = i})

\* [i for i in range(self.n) if degree[i] % 2 == 1]
AllVertices(k, mst) == RangeList(k)

find_odd_degree_vertices(k, mst) ==
    SelectSeq(RangeList(k), LAMBDA i : Degree(mst, i) % 2 = 1)

\* one pass of the while loop of min_weight_matching;
\* st = [matching, unmatched, error].  min() of an empty set raises
\* ValueError: the pass then records the error and the loop is left.
MatchingBody(m, st) ==
    LET v == SetPop(st.unmatched)
        rest == SetRemove(st.unmatched, v)
        nearest == PyMin(rest, m[v])
    IN  IF Slots(rest) = {}
        THEN [st EXCEPT !.error = TRUE]
        ELSE [matching |-> Append(st.matching, <<v, nearest>>),
              unmatched |-> SetRemove(rest, nearest),
              error |-> FALSE]

RECURSIVE MatchingLoop(_, _, _)
\* while len(unmatched) > 0: ..., for at most `passes` passes
MatchingLoop(m, st, passes) ==
    IF passes = 0 \/ st.error \/ Slots(st.unmatched) = {} THEN st
    ELSE IF passes = 1 THEN MatchingBody(m, st)
    ELSE The({MatchingLoop(m, half, passes - passes \div 2) :
             half \in {MatchingLoop(m, st, passes \div 2)}})

\* the matching, or the ValueError of min(); every pass takes a vertex out
\* of unmatched, so len(odd_vertices) passes end the loop
min_weight_matching(m, odd_vertices) ==
    LET st == MatchingLoop(m, [matching |-> <<>>, unmatched |-> PySet(odd_vertices),
                               error |-> FALSE],
                           Len(odd_vertices))
    IN  IF st.error THEN ValueError("min() arg is an empty sequence")
        ELSE [matching |-> st.matching]

RECURSIVE CombineLoop(_, _, _, _)
\* for u, v in mst + matching: graph[u].append(v); graph[v].append(u),
\* for the edges at positions lo..hi of the list
CombineLoop(edge_list, graph, lo, hi) ==
    IF lo > hi THEN graph
    ELSE IF lo = hi
    THEN LET u == edge_list[lo][1]
             v == edge_list[lo][2]
             g1 == [graph EXCEPT ![u + 1] = Append(@, v)]
         IN  [g1 EXCEPT ![v + 1] = Append(@, u)]
    ELSE The({CombineLoop(edge_list, half, (lo + hi) \div 2 + 1, hi) :
             half \in {CombineLoop(edge_list, graph, lo, (lo + hi) \div 2)}})

CombineMstOnly(k, mst, matching) ==
    CombineLoop(mst, Tuple([p \in 1..k |-> <<>>]), 1, Len(mst))

combine_mst_matching(k, mst, matching) ==
    CombineLoop(mst \o matching, Tuple([p \in 1..k |-> <<>>]), 1,
                Len(mst) + Len(matching))

\* list.remove(x): drop the first occurrence of x
ListRemove(l, x) ==
    LET p == SetMin({q \in 1..Len(l) : l[q] = x})
    IN  SubSeq(l, 1, p - 1) \o SubSeq(l, p + 1, Len(l))

\* one pass of the while loop of find_eulerian_circuit, on its private copy;
\* st = [curr_path, circuit, curr_graph]
EulerBody(st) ==
    LET curr == st.curr_path[Len(st.curr_path)]
        adj == At(st.curr_graph, curr)
        next_vertex == adj[Len(adj)]
        g1 == [st.curr_graph EXCEPT ![curr + 1] = SubSeq(adj, 1, Len(adj) - 1)]
    IN  IF adj # <<>>
        THEN [curr_path |-> Append(st.curr_path, next_vertex),
              circuit |-> st.circuit,
              curr_graph |-> [g1 EXCEPT ![next_vertex + 1] = ListRemove(@, curr)]]
        ELSE [curr_path |-> SubSeq(st.curr_path, 1, Len(st.curr_path) - 1),
              circuit |-> Append(st.circuit, curr),
              curr_graph |-> st.curr_graph]

RECURSIVE EulerLoop(_, _)
\* while curr_path: ..., for at most `passes` passes
EulerLoop(st, passes) ==
    IF passes = 0 \/ st.curr_path = <<>> THEN st
    ELSE IF passes = 1 THEN EulerBody(st)
    ELSE The({EulerLoop(half, passes - passes \div 2) :
             half \in {EulerLoop(st, passes \div 2)}})

RECURSIVE SumLen(_, _, _)
\* the total length of the lists graph[lo], ..., graph[hi]
SumLen(graph, lo, hi) ==
    IF lo > hi THEN 0
    ELSE IF lo = hi THEN Len(At(graph, lo))
    ELSE SumLen(graph, lo, (lo + hi) \div 2) + SumLen(graph, (lo + hi) \div 2 + 1, hi)

ShareAdjacency(graph) == [lists |-> graph, own |-> FALSE]

\* curr_graph = {k: v[:] for k, v in graph.items()}: the lists of curr_graph
\* are new objects (own), so the pops and removes of the loop do not reach
\* the lists of graph
CopyAdjacency(graph) == [lists |-> graph, own |-> TRUE]

\* Hierholzer's algorithm from city 0: circuit[::-1], and graph, the
\* caller's adjacency as the call leaves it (the lists of curr_graph when
\* they are the caller's own lists).  A pass removes two adjacency entries
\* or pops the path, which grows only in the passes of the first kind, so
\* (entries + 1) passes end the loop.
EulerRun(graph) ==
    LET curr_graph == CopyAdjacency(graph)
        st == EulerLoop([curr_path |-> <<0>>, circuit |-> <<>>,
                         curr_graph |-> curr_graph.lists],
                        SumLen(graph, 0, Len(graph) - 1) + 1)
    IN  [circuit |-> Reversed(st.circuit),
         graph |-> IF curr_graph.own THEN graph ELSE st.curr_graph]

find_eulerian_circuit(graph) == EulerRun(graph).circuit

KeepCircuit(circuit) == circuit

RECURSIVE HamiltonianLoop(_, _, _, _)
\* for city in circuit: keep the first visit of every city, for the
\* positions lo..hi of the circuit
HamiltonianLoop(circuit, tour, lo, hi) ==
    IF lo > hi THEN tour
    ELSE IF lo = hi
    THEN IF \E q \in 1..Len(tour) : tour[q] = circuit[lo] THEN tour
         ELSE Append(tour, circuit[lo])
    ELSE The({HamiltonianLoop(circuit, half, (lo + hi) \div 2 + 1, hi) :
             half \in {HamiltonianLoop(circuit, tour, lo, (lo + hi) \div 2)}})

make_hamiltonian(circuit) == HamiltonianLoop(circuit, <<>>, 1, Len(circuit))

\* approximation_ratio=1.5
ChristofidesRatio == "1.5"

\* the local variables of christofides when it returns: mst, odd_vertices,
\* matching, multigraph (as combine_mst_matching built it), graph (the same
\* object after find_eulerian_circuit has returned), circuit and tour; when
\* min_weight_matching raises, the locals bound so far and the error
ChristofidesStages(m, k) ==
    LET mst == compute_mst(m, k)
        odd_vertices == find_odd_degree_vertices(k, mst)
        matched == min_weight_matching(m, odd_vertices)
        multigraph == combine_mst_matching(k, mst, matched.matching)
        euler == EulerRun(multigraph)
    IN  IF IsError(matched)
        THEN [of |-> "christofides", mst |-> mst,
              odd_vertices |-> odd_vertices, raised |-> matched]
        ELSE [of |-> "christofides", mst |-> mst,
              odd_vertices |-> odd_vertices, matching |-> matched.matching,
              multigraph |-> multigraph, graph |-> euler.graph,
              circuit |-> euler.circuit,
              tour |-> make_hamiltonian(euler.circuit)]

\* what christofides returns or raises, given its locals
ChristofidesResult(m, k, stages) ==
    IF "raised" \in DOMAIN stages THEN stages.raised
    ELSE MakeResult(stages.tour, calculate_tour_cost(m, stages.tour),
                    "Christofides", k, FALSE, ChristofidesRatio)

christofides(m, k) == ChristofidesResult(m, k, ChristofidesStages(m, k))

---------------------------------------------------------------------------
(* TSPSolver.two_opt                                                       *)

ReverseFromStart(tour, i, j) ==
    Reversed(Slice(tour, 0, j + 1)) \o Slice(tour, j + 1, Len(tour))

\* tour[:i] + tour[i:j+1][::-1] + tour[j+1:]
TwoOptSwap(tour, i, j) ==
    Slice(tour, 0, i) \o Reversed(Slice(tour, i, j + 1)) \o Slice(tour, j + 1, Len(tour))

AcceptsWorse(new_cost, best_cost) == new_cost > best_cost

NotWorse(new_cost, best_cost) == new_cost <= best_cost

\* the acceptance test: new_cost < best_cost
Improves(new_cost, best_cost) == new_cost < best_cost

RECURSIVE TwoOptInner(_, _, _, _, _, _, _)
\* for j in range(i + 1, self.n): ... break on the first improvement, for
\* the values lo..hi of j: {j} for the first j whose swap is accepted, {}
\* when none is (the range is searched by halves, the second half only when
\* the first holds no such j)
TwoOptInner(m, k, tour, best_cost, i, lo, hi) ==
    IF lo > hi THEN {}
    ELSE IF lo = hi
    THEN {j \in {lo} :
             \E new_tour \in {TwoOptSwap(tour, i, j)} :
                 Improves(calculate_tour_cost(m, new_tour), best_cost)}
    ELSE The({IF first # {} THEN first
              ELSE TwoOptInner(m, k, tour, best_cost, i,
                               (lo + hi) \div 2 + 1, hi) :
              first \in {TwoOptInner(m, k, tour, best_cost, i, lo,
                                     (lo + hi) \div 2)}})

RECURSIVE TwoOptOuter(_, _, _, _, _, _)
\* for i in range(1, self.n - 1): ... if improved: break, for the values
\* lo..hi of i: {<<i, j>>} for the first accepted pair, {} when there is none
TwoOptOuter(m, k, tour, best_cost, lo, hi) ==
    IF lo > hi THEN {}
    ELSE IF lo = hi
    THEN {<<lo, j>> : j \in TwoOptInner(m, k, tour, best_cost, lo, lo + 1, k - 1)}
    ELSE The({IF first # {} THEN first
              ELSE TwoOptOuter(m, k, tour, best_cost,
                               (lo + hi) \div 2 + 1, hi) :
              first \in {TwoOptOuter(m, k, tour, best_cost, lo,
                                     (lo + hi) \div 2)}})

\* one pass of the body of the while loop;
\* st = [tour, cost (best_cost), improved, iteration]
TwoOptScan(m, k, st) ==
    The({IF accepted = {}
         THEN [st EXCEPT !.improved = FALSE, !.iteration = @ + 1]
         ELSE The({[tour |-> new_tour,
                    cost |-> calculate_tour_cost(m, new_tour),
                    improved |-> TRUE, iteration |-> st.iteration + 1] :
                   new_tour \in {TwoOptSwap(st.tour, The(accepted)[1],
                                            The(accepted)[2])}}) :
         accepted \in {TwoOptOuter(m, k, st.tour, st.cost, 1, k - 2)}})

ContinuesWhileImproved(st, max_iterations) == st.improved

\* the test of the while loop: improved and iteration < max_iterations
TwoOptContinues(st, max_iterations) ==
    st.improved /\ PyLt(st.iteration, max_iterations)

RECURSIVE TwoOptWhile(_, _, _, _, _)
\* while improved and iteration < max_iterations: ..., for at most
\* `passes` passes
TwoOptWhile(m, k, st, max_iterations, passes) ==
    IF passes <= 0 \/ ~TwoOptContinues(st, max_iterations) THEN st
    ELSE IF passes = 1 THEN TwoOptScan(m, k, st)
    ELSE The({TwoOptWhile(m, k, half, max_iterations, passes - passes \div 2) :
              half \in {TwoOptWhile(m, k, st, max_iterations, passes \div 2)}})

\* the seed: list(range(self.n)) when initial_tour is None, else a copy
TwoOptSeed(k, initial_tour) ==
    IF initial_tour = NoList THEN RangeList(k)
    ELSE CHOOSE t \in initial_tour : TRUE

\* the loop state two_opt ends with; every pass adds one to iteration, so
\* max_iterations passes end the loop
TwoOptRun(m, k, initial_tour, max_iterations) ==
    LET tour == TwoOptSeed(k, initial_tour)
    IN  TwoOptWhile(m, k,
                    [tour |-> tour, cost |-> calculate_tour_cost(m, tour),
                     improved |-> TRUE, iteration |-> 0],
                    max_iterations, max_iterations)

two_opt(m, k, initial_tour, max_iterations) ==
    LET r == TwoOptRun(m, k, initial_tour, max_iterations)
    IN  MakeResult(r.tour, r.cost, "2-opt", k, FALSE, None)

---------------------------------------------------------------------------
(* TSPSolver.solve.  An entrypoint run yields the outcome of the call, the *)
(* DP table it left and the solver methods it ran.                         *)

\* the solver calls a run makes are recorded in trace, with their arguments
HeldKarpCall == [op |-> "held_karp"]
NearestNeighborCall(start) == [op |-> "nearest_neighbor", start |-> start]
ChristofidesCall == [op |-> "christofides"]
TwoOptCall(initial_tour, max_iterations) ==
    [op |-> "two_opt", initial_tour |-> initial_tour,
     max_iterations |-> max_iterations]

\* no locals kept: the call ran neither christofides nor two_opt
NoLocals == [of |-> "none"]

RunHeldKarp(m, k) ==
    LET r == held_karp(m, k)
    IN  [result |-> r.result, dp |-> r.dp, trace |-> <<HeldKarpCall>>,
         locals |-> NoLocals]

RunNearestNeighbor(m, k, start) ==
    [result |-> nearest_neighbor(m, k, start), dp |-> <<>>,
     trace |-> <<NearestNeighborCall(start)>>, locals |-> NoLocals]

RunChristofides(m, k) ==
    LET stages == ChristofidesStages(m, k)
    IN  [result |-> ChristofidesResult(m, k, stages), dp |-> <<>>,
         trace |-> <<ChristofidesCall>>, locals |-> stages]

\* the locals of two_opt when it returns: the loop state, and the caller's
\* list, which no statement of two_opt writes to (the loop rebinds tour to
\* new lists)
TwoOptLocals(r, initial_tour, max_iterations) ==
    [of |-> "two_opt", tour |-> r.tour, best_cost |-> r.cost,
     improved |-> r.improved, iteration |-> r.iteration,
     initial_tour |-> initial_tour, max_iterations |-> max_iterations]

RunTwoOpt(m, k, initial_tour, max_iterations) ==
    LET r == TwoOptRun(m, k, initial_tour, max_iterations)
    IN  [result |-> MakeResult(r.tour, r.cost, "2-opt", k, FALSE, None),
         dp |-> <<>>,
         trace |-> <<TwoOptCall(initial_tour, max_iterations)>>,
         locals |-> TwoOptLocals(r, initial_tour, max_iterations)]

\* self.calculate_tour_cost(tour) called by the user of the solver
RunCalculateTourCost(m, tour) ==
    [result |-> [value |-> calculate_tour_cost(m, tour)], dp |-> <<>>,
     trace |-> <<>>, locals |-> NoLocals]

AutoChoiceSwapped(k) ==
    IF k <= AUTO_EXACT_MAX THEN "christofides"
    ELSE IF k <= AUTO_APPROX_MAX THEN "held_karp"
    ELSE "nearest_neighbor+two_opt"

\* the branch of solve("auto") taken for n cities
AutoChoice(k) ==
    IF k <= AUTO_EXACT_MAX THEN "held_karp"
    ELSE IF k <= AUTO_APPROX_MAX THEN "christofides"
    ELSE "nearest_neighbor+two_opt"

\* the seed of the refinement in the last branch of "auto":
\* self.two_opt(nn_result.tour)
AutoTwoOptSeed(nn_result) == Some(nn_result.tour)

NearestNeighborSeed(m, k) == Some(nearest_neighbor(m, k, 0).tour)

\* the seed of the "2-opt" entry of the table: lambda: self.two_opt()
TableTwoOptSeed(m, k) == NoList

\* the keys of the dict algorithms
AlgorithmNames == {"held-karp", "christofides", "nearest-neighbor", "2-opt"}

solve(m, k, algorithm) ==
    IF algorithm = "auto"
    THEN CASE AutoChoice(k) = "held_karp" -> RunHeldKarp(m, k)
           [] AutoChoice(k) = "christofides" -> RunChristofides(m, k)
           [] OTHER ->
                LET nn_result == nearest_neighbor(m, k, 0)
                    refined == RunTwoOpt(m, k, AutoTwoOptSeed(nn_result),
                                         DEFAULT_MAX_ITERATIONS)
                IN  [refined EXCEPT !.trace = <<NearestNeighborCall(0)>> \o @]
    ELSE IF algorithm \notin AlgorithmNames
    THEN [result |-> ValueError("Unknown algorithm: " \o algorithm),
          dp |-> <<>>, trace |-> <<>>, locals |-> NoLocals]
    ELSE CASE algorithm = "held-karp" -> RunHeldKarp(m, k)
           [] algorithm = "christofides" -> RunChristofides(m, k)
           [] algorithm = "nearest-neighbor" -> RunNearestNeighbor(m, k, 0)
           [] algorithm = "2-opt" ->
                RunTwoOpt(m, k, TableTwoOptSeed(m, k), DEFAULT_MAX_ITERATIONS)

---------------------------------------------------------------------------
(* The arrays handed to the constructor                                    *)

\* the k x k array with zero diagonal whose other entries are those of
\* the function off on pairs of indices
ZeroDiagonalArray(k, off) ==
    [i \in Range(k) |-> [j \in Range(k) |-> IF i = j THEN 0 ELSE off[<<i, j>>]]]

\* the array with the given rows: np.array(rows)
ArrayOf(rows) ==
    [i \in Range(Len(rows)) |->
        [j \in Range(Len(rows[i + 1])) |-> rows[i + 1][j + 1]]]

\* the r x c array with every entry equal to c0
ConstantArray(r, c, c0) == [i \in Range(r) |-> [j \in Range(c) |-> c0]]

OffDiagonal(k) == {ij \in Range(k) \X Range(k) : ij[1] # ij[2]}

\* every k x k cost matrix with zero diagonal and the other entries in W
AllMatrices(k, W) == {ZeroDiagonalArray(k, f) : f \in [OffDiagonal(k) -> W]}

\* every symmetric one
SymmetricMatrices(k, W) ==
    {a \in AllMatrices(k, W) : \A i, j \in Range(k) : a[i][j] = a[j][i]}

\* all off-diagonal entries equal to c (test_identical_distances)
UniformMatrix(k, c) == ZeroDiagonalArray(k, [ij \in OffDiagonal(k) |-> c])

\* cities on a line, one unit apart: a Euclidean instance of any size
LineMatrix(k) ==
    [i \in Range(k) |-> [j \in Range(k) |-> IF i < j THEN j - i ELSE i - j]]

\* the fixtures of tests/test_tsp_solver.py
small_matrix ==
    ArrayOf(<< <<0, 10, 15, 20>>, <<10, 0, 35, 25>>,
               <<15, 35, 0, 30>>, <<20, 25, 30, 0>> >>)

medium_matrix ==
    ArrayOf(<< <<0, 10, 15, 20, 25>>, <<10, 0, 35, 25, 30>>,
               <<15, 35, 0, 30, 20>>, <<20, 25, 30, 0, 15>>,
               <<25, 30, 20, 15, 0>> >>)

two_cities == ArrayOf(<< <<0, 10>>, <<10, 0>> >>)

very_asymmetric == ArrayOf(<< <<0, 1, 100>>, <<100, 0, 1>>, <<1, 100, 0>> >>)

Fixtures ==
    {small_matrix, medium_matrix, two_cities, very_asymmetric,
     UniformMatrix(5, 10)}

\* every order of the k cities
TourLists(k) ==
    {t \in [1..k -> Range(k)] : \A p, q \in 1..k : p # q => t[p] # t[q]}

\* a one-way ring road: cost 1 from each city of the list ring to the next
\* and from the last to the first, MaxW between any other two cities
\* (test_very_asymmetric is such a matrix on 3 cities)
OneWayRing(ring) ==
    LET k == Len(ring)
    IN  ZeroDiagonalArray(k,
            [ij \in OffDiagonal(k) |->
                IF \E p \in 1..k :
                       ring[p] = ij[1] /\ ring[(p % k) + 1] = ij[2]
                THEN 1 ELSE MaxW])

\* the one-way rings on k cities, one for each cyclic order
OneWayRings(k) == {OneWayRing(t) : t \in {u \in TourLists(k) : u[1] = 0}}

\* instances just above the limits of held_karp and of solve("auto")
LargeMatrices == {LineMatrix(HK_MAX_CITIES + 1), LineMatrix(AUTO_APPROX_MAX + 1)}

\* the instances: every 2-city matrix with costs up to MaxW; the 3-city
\* matrices with costs 0 or MaxW, and the symmetric ones with costs up to
\* MaxW; the symmetric 4-city matrices with costs 1 or MaxW and the 4-city
\* one-way rings
ValidMatrices ==
    AllMatrices(2, 0..MaxW)
    \cup AllMatrices(3, {0, MaxW}) \cup SymmetricMatrices(3, 0..MaxW)
    \cup SymmetricMatrices(4, {1, MaxW}) \cup OneWayRings(4)
    \cup Fixtures \cup LargeMatrices

\* arrays that validate_input rejects: not square, fewer than 2 cities,
\* a non-zero diagonal entry
InvalidArrays ==
    {ConstantArray(rc[1], rc[2], w) :
        rc \in {<<1, 2>>, <<2, 1>>, <<2, 3>>, <<3, 2>>}, w \in 0..MaxW}
    \cup {ConstantArray(1, 1, w) : w \in 0..MaxW}
    \cup {a \in [Range(2) -> [Range(2) -> 0..MaxW]] : a[0][0] # 0 \/ a[1][1] # 0}
    \cup {[i \in Range(3) |->
              [j \in Range(3) |-> IF i # j THEN 1 ELSE IF i = d THEN w ELSE 0]] :
             d \in Range(3), w \in 1..MaxW}

Candidates == ValidMatrices \cup InvalidArrays

---------------------------------------------------------------------------
(* The arguments of the entrypoints                                        *)

\* lists of city indices that are not tours: empty, too short, too long,
\* with a repeated city
NonTours(k) ==
    {<<>>, RangeList(k - 1), RangeList(k) \o <<0>>,
     [p \in 1..k |-> 0], [p \in 1..k |-> IF p = k THEN 0 ELSE p - 1]}

Starts(k) == IF k <= SmallN THEN Range(k) ELSE {0, k - 1}

InitialTours(k) ==
    IF k <= SmallN
    THEN {NoList} \cup {Some(t) : t \in TourLists(k) \cup NonTours(k)}
    ELSE {NoList}

\* iteration budgets: every small one and the default on the small
\* instances, none and the default on the middle one, none on the largest
Budgets(k) ==
    IF k <= SmallN THEN (0..MaxIter) \cup {DEFAULT_MAX_ITERATIONS}
    ELSE IF k <= AUTO_APPROX_MAX THEN {0, DEFAULT_MAX_ITERATIONS}
    ELSE {0}

\* the lists handed to calculate_tour_cost: tours and lists that are not
CostTours(k) ==
    IF k <= SmallN THEN TourLists(k) \cup NonTours(k) ELSE {RangeList(k)}

SolveNames == AlgorithmNames \cup {"auto", "genetic", "Held-Karp", ""}

---------------------------------------------------------------------------
(* The state machine: a caller constructs a solver on an array, then calls *)
(* entrypoints on it one after the other.                                  *)

NoCall == [op |-> "none"]
NoResult == [none |-> TRUE]

Init ==
    /\ distance_matrix \in Candidates
    /\ n = 0
    /\ pc = "new"
    /\ call = NoCall
    /\ result = NoResult
    /\ trace = <<>>
    /\ dp = <<>>
    /\ locals = NoLocals
    /\ failed = FALSE

\* TSPSolver.__init__: store the array and its length, then validate
Construct ==
    /\ pc = "new"
    /\ LET v == validate_input(distance_matrix, Shape0(distance_matrix))
       IN  /\ n' = Shape0(distance_matrix)
           /\ pc' = IF IsError(v) THEN "invalid" ELSE "ready"
           /\ result' = IF IsError(v) THEN v ELSE NoResult
    /\ UNCHANGED <<distance_matrix, call, trace, dp, locals, failed>>

\* an entrypoint call runs to its return or raise
Returns(c, run) ==
    /\ pc = "ready"
    /\ pc' = "returned"
    /\ call' = c
    /\ result' = run.result
    /\ trace' = run.trace
    /\ dp' = run.dp
    /\ locals' = run.locals
    /\ UNCHANGED <<distance_matrix, n, failed>>

HeldKarp == Returns(HeldKarpCall, RunHeldKarp(distance_matrix, n))

NearestNeighbor ==
    \E start \in Starts(n) :
        Returns(NearestNeighborCall(start),
                RunNearestNeighbor(distance_matrix, n, start))

Christofides == Returns(ChristofidesCall, RunChristofides(distance_matrix, n))

TwoOpt ==
    \E initial_tour \in InitialTours(n), max_iterations \in Budgets(n) :
        Returns(TwoOptCall(initial_tour, max_iterations),
                RunTwoOpt(distance_matrix, n, initial_tour, max_iterations))

Solve ==
    \E algorithm \in SolveNames :
        Returns([op |-> "solve", algorithm |-> algorithm],
                solve(distance_matrix, n, algorithm))

CalculateTourCost ==
    \E tour \in CostTours(n) :
        Returns([op |-> "calculate_tour_cost", tour |-> tour],
                RunCalculateTourCost(distance_matrix, tour))

\* the caller takes the outcome; the solver is ready for the next call
Return ==
    /\ pc = "returned"
    /\ pc' = "ready"
    /\ call' = NoCall
    /\ result' = NoResult
    /\ trace' = <<>>
    /\ dp' = <<>>
    /\ locals' = NoLocals
    /\ failed' = (failed \/ IsError(result))
    /\ UNCHANGED <<distance_matrix, n>>

Next ==
    \/ Construct
    \/ HeldKarp
    \/ NearestNeighbor
    \/ Christofides
    \/ TwoOpt
    \/ Solve
    \/ CalculateTourCost
    \/ Return

Spec == Init /\ [][Next]_vars

---------------------------------------------------------------------------
(* two_opt scan by scan: the call enters the loop, runs one scan per step  *)
(* while the test of the loop holds, and leaves with its Result.  The      *)
(* budget may be float('inf'), with which the test never stops the loop.   *)

\* budgets: on the small instances those of the calls above and the
\* unbounded one, on the others none
ScanBudgets(k) == IF k <= SmallN THEN Budgets(k) \cup {Inf} ELSE {0}

\* the loop variables held in locals
LoopState == [tour |-> locals.tour, cost |-> locals.best_cost,
              improved |-> locals.improved, iteration |-> locals.iteration]

\* lines 301-308: the seed, its cost, improved = True, iteration = 0
TwoOptEnter ==
    /\ pc = "ready"
    /\ \E initial_tour \in InitialTours(n), max_iterations \in ScanBudgets(n) :
           LET tour == TwoOptSeed(n, initial_tour)
           IN  /\ call' = TwoOptCall(initial_tour, max_iterations)
               /\ trace' = <<TwoOptCall(initial_tour, max_iterations)>>
               /\ locals' = TwoOptLocals(
                                 [tour |-> tour,
                                  cost |-> calculate_tour_cost(distance_matrix,
                                                               tour),
                                  improved |-> TRUE, iteration |-> 0],
                                 initial_tour, max_iterations)
    /\ pc' = "two_opt"
    /\ UNCHANGED <<distance_matrix, n, result, dp, failed>>

\* one pass of the while loop
TwoOptStep ==
    /\ pc = "two_opt"
    /\ TwoOptContinues(LoopState, locals.max_iterations)
    /\ \E scanned \in {TwoOptScan(distance_matrix, n, LoopState)} :
           locals' = TwoOptLocals(scanned, locals.initial_tour,
                                  locals.max_iterations)
    /\ UNCHANGED <<distance_matrix, n, pc, call, result, trace, dp, failed>>

\* the test of the loop fails: two_opt returns its Result
TwoOptLeave ==
    /\ pc = "two_opt"
    /\ ~TwoOptContinues(LoopState, locals.max_iterations)
    /\ pc' = "returned"
    /\ result' = MakeResult(locals.tour, locals.best_cost, "2-opt", n, FALSE,
                            None)
    /\ UNCHANGED <<distance_matrix, n, call, trace, dp, locals, failed>>

NextScan ==
    \/ Construct
    \/ TwoOptEnter
    \/ TwoOptStep
    \/ TwoOptLeave
    \/ Return

\* the interpreter keeps executing a call that has been made
SpecScan ==
    /\ Init
    /\ [][NextScan]_vars
    /\ WF_vars(TwoOptStep)
    /\ WF_vars(TwoOptLeave)

---------------------------------------------------------------------------
(* Properties                                                              *)

Returned == pc = "returned"
IsResult(r) == "tour" \in DOMAIN r
ReturnedResult == Returned /\ IsResult(result)

\* tour has length k and holds every city 0..k-1 exactly once
IsTour(tour, k) ==
    /\ Len(tour) = k
    /\ \A c \in Range(k) : Cardinality({p \in 1..k : tour[p] = c}) = 1

\* the call is two_opt with a list that is not a tour as its seed
SeedIsNoTour ==
    /\ call.op = "two_opt"
    /\ \E t \in call.initial_tour : ~IsTour(t, n)

\* C1 as stated: every Result returned by held_karp, nearest_neighbor,
\* christofides, two_opt and solve on a validated matrix has a tour of
\* length n holding every city 0..n-1 exactly once, and num_cities = n.
\* two_opt returns a rearrangement of whatever list it was handed, so this
\* fails when the seed is not a tour.
C1_EveryResultHoldsATour ==
    ReturnedResult => IsTour(result.tour, n) /\ result.num_cities = n

\* C1 amended: the same for every Result except those of two_opt called
\* with an initial_tour that is not itself a permutation of 0..n-1.
C1_ResultOfTourSeedHoldsATour ==
    (ReturnedResult /\ ~SeedIsNoTour) =>
        IsTour(result.tour, n) /\ result.num_cities = n

\* two_opt, seeded with a tour, returned a different tour
C1_Witness ==
    /\ ReturnedResult
    /\ call.op = "two_opt"
    /\ \E t \in call.initial_tour : IsTour(t, n) /\ t # result.tour
    /\ IsTour(result.tour, n)

\* C2: the cost reported in every Result of held_karp, nearest_neighbor,
\* christofides and two_opt (called directly or through solve) equals
\* calculate_tour_cost of the reported tour, closing edge included.
C2_CostIsTourCost ==
    ReturnedResult =>
        result.cost = calculate_tour_cost(distance_matrix, result.tour)

\* held_karp returned a tour other than the identity, whose cost it took
\* from the DP table
C2_Witness ==
    /\ ReturnedResult
    /\ call.op = "held_karp"
    /\ result.tour # RangeList(n)
    /\ result.cost > 0
    /\ result.cost = calculate_tour_cost(distance_matrix, result.tour)

\* the least cyclic cost over all permutations of the k cities
MinTourCost(m, k) == SetMin({calculate_tour_cost(m, t) : t \in TourLists(k)})

\* C3: the cost of held_karp is the least cyclic tour cost over all
\* permutations of the cities, hence at most the cost of nearest_neighbor
\* from every start and at most the cost of christofides.
C3_HeldKarpIsOptimal ==
    (ReturnedResult /\ call.op = "held_karp") =>
        /\ result.cost = MinTourCost(distance_matrix, n)
        /\ \A start \in Range(n) :
               result.cost <= nearest_neighbor(distance_matrix, n, start).cost
        /\ result.cost <= christofides(distance_matrix, n).cost

\* held_karp strictly beat christofides and nearest_neighbor from some start
C3_Witness ==
    /\ ReturnedResult
    /\ call.op = "held_karp"
    /\ result.cost = MinTourCost(distance_matrix, n)
    /\ result.cost < christofides(distance_matrix, n).cost
    /\ \E start \in Range(n) :
           result.cost < nearest_neighbor(distance_matrix, n, start).cost

\* C4: two_opt never worsens its seed and is monotone in its budget: its
\* cost is at most calculate_tour_cost of the initial tour, and at most the
\* cost it returns for the same initial tour under any smaller budget.
C4_TwoOptNeverWorsens ==
    (ReturnedResult /\ call.op = "two_opt") =>
        /\ result.cost <= calculate_tour_cost(distance_matrix,
                                               TwoOptSeed(n, call.initial_tour))
        /\ \A k \in Budgets(n) :
               k < call.max_iterations =>
                   result.cost <= two_opt(distance_matrix, n, call.initial_tour,
                                          k).cost

\* the cost fell in the first iteration and again in a later one
C4_Witness ==
    /\ ReturnedResult
    /\ call.op = "two_opt"
    /\ call.max_iterations > 1
    /\ result.cost < two_opt(distance_matrix, n, call.initial_tour, 1).cost
    /\ two_opt(distance_matrix, n, call.initial_tour, 1).cost
           < two_opt(distance_matrix, n, call.initial_tour, 0).cost

IsSolve(algorithm) == call.op = "solve" /\ call.algorithm = algorithm

\* C5: solve("auto") runs held_karp when n <= 15, christofides when
\* 15 < n <= 100, and otherwise nearest_neighbor from city 0 followed by
\* two_opt seeded with that tour; it runs nothing else and returns the
\* outcome of the chain it ran.
C5_AutoDispatch ==
    (Returned /\ IsSolve("auto")) =>
        IF n <= 15
        THEN /\ trace = <<HeldKarpCall>>
             /\ result = held_karp(distance_matrix, n).result
        ELSE IF n <= 100
        THEN /\ trace = <<ChristofidesCall>>
             /\ result = christofides(distance_matrix, n)
        ELSE LET nn_tour == nearest_neighbor(distance_matrix, n, 0).tour
             IN  /\ Len(trace) = 2
                 /\ trace[1] = NearestNeighborCall(0)
                 /\ trace[2].op = "two_opt"
                 /\ trace[2].initial_tour = Some(nn_tour)
                 /\ result = two_opt(distance_matrix, n, Some(nn_tour),
                                     trace[2].max_iterations)

\* solve("auto") on more than 100 cities returned a tour after both stages
C5_Witness ==
    /\ ReturnedResult
    /\ IsSolve("auto")
    /\ n > 100
    /\ Len(trace) = 2
    /\ IsTour(result.tour, n)
    /\ result.algorithm = "2-opt"

\* C6: solve with an explicit name runs the solver of that name whatever n
\* is: held_karp, christofides, nearest_neighbor from city 0, or two_opt
\* seeded with the identity tour; a name that is neither one of these four
\* nor "auto" fails with the unknown-algorithm error (a ValueError whose
\* message is "Unknown algorithm: " and the name) and runs no solver.
C6_NamedDispatch ==
    (Returned /\ call.op = "solve" /\ call.algorithm # "auto") =>
        CASE call.algorithm = "held-karp" ->
                 /\ trace = <<HeldKarpCall>>
                 /\ result = held_karp(distance_matrix, n).result
          [] call.algorithm = "christofides" ->
                 /\ trace = <<ChristofidesCall>>
                 /\ result = christofides(distance_matrix, n)
          [] call.algorithm = "nearest-neighbor" ->
                 /\ trace = <<NearestNeighborCall(0)>>
                 /\ result = nearest_neighbor(distance_matrix, n, 0)
          [] call.algorithm = "2-opt" ->
                 /\ Len(trace) = 1
                 /\ trace[1].op = "two_opt"
                 /\ TwoOptSeed(n, trace[1].initial_tour) = RangeList(n)
                 /\ result = two_opt(distance_matrix, n, Some(RangeList(n)),
                                     trace[1].max_iterations)
          [] OTHER ->
                 /\ IsError(result)
                 /\ result.error = "ValueError"
                 /\ result.message = "Unknown algorithm: " \o call.algorithm
                 /\ trace = <<>>

\* solve("2-opt") returned a tour that two_opt does not return when it is
\* seeded with the nearest-neighbor tour
C6_Witness ==
    /\ ReturnedResult
    /\ IsSolve("2-opt")
    /\ result.tour # two_opt(distance_matrix, n,
                             Some(nearest_neighbor(distance_matrix, n, 0).tour),
                             DEFAULT_MAX_ITERATIONS).tour

RanHeldKarp == call.op = "held_karp" \/ IsSolve("held-karp")

\* C7: held_karp on more than 20 cities fails with the capacity error (a
\* ValueError whose message names the limit of 20), leaves no DP entry and
\* returns no Result; on 20 cities or fewer the guard lets the call
\* through and it returns a Result.
C7_HeldKarpCapacity ==
    /\ \A k \in 2..20 : ~HKTooLarge(k)
    /\ (Returned /\ RanHeldKarp) =>
           IF n > 20
           THEN /\ IsError(result)
                /\ result.error = "ValueError"
                /\ result.message =
                       "Held-Karp: Too many cities (max 20 for practical computation)"
                /\ dp = <<>>
           ELSE IsResult(result) /\ dp # <<>>

\* held_karp was refused on 21 cities
C7_Witness ==
    /\ Returned
    /\ call.op = "held_karp"
    /\ n = 21
    /\ IsError(result)
    /\ dp = <<>>

IsSquare(a) == \A i \in DOMAIN a : Cardinality(DOMAIN a[i]) = Cardinality(DOMAIN a)
ZeroDiagonal(a) == \A i \in DOMAIN a : a[i][i] = 0

\* C8: construction succeeds iff the array is square, has at least 2 rows
\* and has a zero diagonal; otherwise it fails with the validation error
\* (a ValueError) of the first check violated in the order square, size,
\* diagonal, and no entrypoint ever runs on such an array.
C8_ValidationOrder ==
    pc # "new" =>
        LET a == distance_matrix
            valid == IsSquare(a) /\ Cardinality(DOMAIN a) >= 2 /\ ZeroDiagonal(a)
        IN  /\ (pc # "invalid") <=> valid
            /\ pc = "invalid" =>
                   /\ IsError(result)
                   /\ result.error = "ValueError"
                   /\ result.message =
                          IF ~IsSquare(a) THEN "Distance matrix must be square"
                          ELSE IF Cardinality(DOMAIN a) < 2
                          THEN "Need at least 2 cities"
                          ELSE "Diagonal elements must be zero"
                   /\ call = NoCall
                   /\ trace = <<>>
            /\ call # NoCall => valid

\* a 1x1 array with a non-zero entry was rejected as too small
C8_Witness ==
    /\ pc = "invalid"
    /\ DOMAIN distance_matrix = {0}
    /\ distance_matrix[0][0] # 0
    /\ result.message = "Need at least 2 cities"

ByHeldKarp ==
    \/ call.op = "held_karp"
    \/ IsSolve("held-karp")
    \/ IsSolve("auto") /\ n <= 15

ByChristofides ==
    \/ call.op = "christofides"
    \/ IsSolve("christofides")
    \/ IsSolve("auto") /\ 15 < n /\ n <= 100

\* C9: in every returned Result is_optimal is true iff held_karp produced
\* it (called directly, by solve("held-karp") or by solve("auto") on at
\* most 15 cities), and approximation_ratio is 1.5 iff christofides
\* produced it and is unset otherwise.
C9_OptimalityLabels ==
    ReturnedResult =>
        /\ result.is_optimal <=> ByHeldKarp
        /\ result.approximation_ratio = "1.5" <=> ByChristofides
        /\ ~ByChristofides => result.approximation_ratio = None

\* solve("auto") on 21 cities returned the Result of christofides
C9_Witness ==
    /\ ReturnedResult
    /\ IsSolve("auto")
    /\ n = 21
    /\ result.approximation_ratio = "1.5"
    /\ ~result.is_optimal

\* what the call c returns or raises on a solver holding matrix m of k cities
Outcome(m, k, c) ==
    CASE c.op = "held_karp" -> held_karp(m, k).result
      [] c.op = "nearest_neighbor" -> nearest_neighbor(m, k, c.start)
      [] c.op = "christofides" -> christofides(m, k)
      [] c.op = "two_opt" ->
             two_opt(m, k, c.initial_tour, c.max_iterations)
      [] c.op = "solve" -> solve(m, k, c.algorithm).result
      [] c.op = "calculate_tour_cost" ->
             [value |-> calculate_tour_cost(m, c.tour)]

\* the objects a returned call borrowed are as they were handed over: the
\* list given to two_opt, and the adjacency given to find_eulerian_circuit;
\* and a call made after an earlier call has raised has the outcome the
\* same call has on the solver's matrix
BorrowedKept ==
    Returned =>
        /\ locals.of = "two_opt" =>
               locals.initial_tour = trace[Len(trace)].initial_tour
        /\ (locals.of = "christofides" /\ "graph" \in DOMAIN locals) =>
               locals.graph = locals.multigraph
        /\ failed => result = Outcome(distance_matrix, n, call)

RECURSIVE WalkSum(_, _, _)
\* the sum of the entries m[tour[i]][tour[(i + 1) mod len(tour)]] over the
\* first p positions i of the list tour
WalkSum(m, tour, p) ==
    IF p = 0 THEN 0
    ELSE WalkSum(m, tour, p - 1) + m[tour[p]][tour[(p % Len(tour)) + 1]]

\* every off-diagonal entry of the solver's matrix equals c
AllEntriesEqual(c) ==
    \A ij \in OffDiagonal(n) : distance_matrix[ij[1]][ij[2]] = c

\* C12: calculate_tour_cost of any list of city indices, a permutation or
\* not, returns (and does not raise) the sum of the matrix entries over
\* all consecutive positions plus the one from the last element back to
\* the first; hence on a matrix whose off-diagonal entries all equal c
\* every tour of the n cities costs n * c.
C12_TourCostIsCyclicSum ==
    (Returned /\ call.op = "calculate_tour_cost") =>
        /\ DOMAIN result = {"value"}
        /\ result.value = WalkSum(distance_matrix, call.tour, Len(call.tour))
        /\ \A c \in 0..10 :
               (AllEntriesEqual(c) /\ IsTour(call.tour, n)) =>
                   result.value = n * c

\* on the 5-city matrix with every distance 10, a tour other than the
\* identity was costed at 50
C12_Witness ==
    /\ Returned
    /\ call.op = "calculate_tour_cost"
    /\ n = 5
    /\ AllEntriesEqual(10)
    /\ IsTour(call.tour, n)
    /\ call.tour # RangeList(n)
    /\ result.value = 50

\* the cities at the first p positions of the list tour
Visited(tour, p) == {tour[q] : q \in 1..p}

RECURSIVE PathSum(_, _, _)
\* the sum of the edges between the first p cities of the list tour
PathSum(m, tour, p) ==
    IF p <= 1 THEN 0
    ELSE PathSum(m, tour, p - 1) + m[tour[p - 1]][tour[p]]

\* C13: the tour of nearest_neighbor(start) begins with start; every later
\* city is one not yet in the tour that is nearest to the city appended
\* before it; the cost is the sum of the edges followed plus the closing
\* edge from the last city back to start (20 on the matrix of the two
\* cities 10 apart).
C13_NearestNeighborIsGreedy ==
    (ReturnedResult /\ call.op = "nearest_neighbor") =>
        LET tour == result.tour
            m == distance_matrix
        IN  /\ Len(tour) = n
            /\ tour[1] = call.start
            /\ \A p \in 2..n :
                   /\ tour[p] \in Range(n) \ Visited(tour, p - 1)
                   /\ \A x \in Range(n) \ Visited(tour, p - 1) :
                          m[tour[p - 1]][tour[p]] <= m[tour[p - 1]][x]
            /\ result.cost = PathSum(m, tour, n) + m[tour[n]][call.start]
            /\ m = two_cities => result.cost = 20

\* nearest_neighbor from a start other than city 0 passed over a city with
\* a smaller index for a nearer one
C13_Witness ==
    /\ ReturnedResult
    /\ call.op = "nearest_neighbor"
    /\ call.start # 0
    /\ result.tour[1] = call.start
    /\ \E x \in Range(n) \ {call.start, result.tour[2]} :
           /\ x < result.tour[2]
           /\ distance_matrix[call.start][result.tour[2]]
                  < distance_matrix[call.start][x]

\* the last scan of the two_opt that the call ran accepted no reversal
StoppedWithoutImprovement == locals.of = "two_opt" /\ ~locals.improved

\* C14: when two_opt stops because a full scan found no improving pair,
\* its tour is 2-opt locally optimal: for no positions 0 <= i < j <= n-1
\* does reversing tour[i..j] give a tour of strictly lower cost, whether
\* the matrix is symmetric or not.  The scan fixes position 0 (i starts
\* at 1), and on an asymmetric matrix a reversal that starts at position
\* 0 can still lower the cost.
C14_StoppedScanIsLocalOptimum ==
    (ReturnedResult /\ StoppedWithoutImprovement /\ IsTour(result.tour, n)) =>
        \A i, j \in Range(n) :
            i < j =>
                calculate_tour_cost(distance_matrix,
                                    TwoOptSwap(result.tour, i, j))
                    >= result.cost

\* the pairs of positions a scan goes through on k cities
ScanPairs(k) == {ij \in (1..(k - 2)) \X (2..(k - 1)) : ij[1] < ij[2]}

\* the cost of the list tour after the reversal of tour[i..j]
SwapCost(m, tour, ij) == calculate_tour_cost(m, TwoOptSwap(tour, ij[1], ij[2]))

\* the pairs whose reversal strictly lowers the cost of the list tour
ImprovingPairs(m, k, tour) ==
    {ij \in ScanPairs(k) : SwapCost(m, tour, ij) < calculate_tour_cost(m, tour)}

\* the first pair of S in the order i ascending, then j ascending
FirstPair(S) ==
    CHOOSE x \in S :
        \A y \in S : x[1] < y[1] \/ (x[1] = y[1] /\ x[2] <= y[2])

RECURSIVE FirstImprovementRun(_, _, _, _)
\* first improvement with restart, for at most `scans` scans: a scan
\* reverses the first improving pair and nothing else; a scan that finds
\* none ends the run
FirstImprovementRun(m, k, tour, scans) ==
    IF scans = 0 \/ ImprovingPairs(m, k, tour) = {} THEN tour
    ELSE FirstImprovementRun(
             m, k,
             TwoOptSwap(tour, FirstPair(ImprovingPairs(m, k, tour))[1],
                        FirstPair(ImprovingPairs(m, k, tour))[2]),
             scans - 1)

\* C15: two_opt is first-improvement with restart: each scan goes through
\* the pairs with i ascending, then j ascending, reverses the first pair
\* that strictly lowers the cost and no other, and the next scan starts
\* again from the first pair; a reversal that leaves the cost equal is
\* never made.
C15_FirstImprovement ==
    (ReturnedResult /\ locals.of = "two_opt") =>
        LET seed == TwoOptSeed(n, locals.initial_tour)
            tour == FirstImprovementRun(distance_matrix, n, seed,
                                        locals.max_iterations)
        IN  /\ result.tour = tour
            /\ result.cost = calculate_tour_cost(distance_matrix, tour)
            /\ result.tour # seed => result.cost
                   < calculate_tour_cost(distance_matrix, seed)

\* one scan reversed the first improving pair although a later pair
\* lowered the cost further, and passed over an earlier pair whose
\* reversal left the cost equal
C15_Witness ==
    /\ ReturnedResult
    /\ call.op = "two_opt"
    /\ call.max_iterations = 1
    /\ LET m == distance_matrix
           seed == TwoOptSeed(n, call.initial_tour)
           first == FirstPair(ImprovingPairs(m, n, seed))
       IN  /\ ImprovingPairs(m, n, seed) # {}
           /\ result.tour = TwoOptSwap(seed, first[1], first[2])
           /\ \E ij \in ImprovingPairs(m, n, seed) :
                  SwapCost(m, seed, ij) < result.cost
           /\ \E ij \in ScanPairs(n) :
                  /\ FirstPair({ij, first}) = ij
                  /\ ij # first
                  /\ SwapCost(m, seed, ij) = calculate_tour_cost(m, seed)

InLoop == pc = "two_opt"

\* C16: two_opt always ends: a call in the loop returns, even with an
\* unbounded budget; it runs at most max_iterations scans; a scan that
\* accepts no reversal is the last; a scan that changes the tour strictly
\* lowers the cost; and with max_iterations = 0 it runs no scan and returns
\* the initial tour with its own cost.
C16_TwoOptTerminates ==
    /\ InLoop ~> Returned
    /\ [](InLoop => ~PyLt(locals.max_iterations, locals.iteration))
    /\ [][(InLoop /\ ~locals.improved) => Returned']_vars
    /\ [][(InLoop /\ InLoop' /\ locals'.tour # locals.tour) =>
              /\ locals'.best_cost < locals.best_cost
              /\ locals'.iteration = locals.iteration + 1]_vars
    /\ []((Returned /\ call.max_iterations = 0) =>
              /\ locals.iteration = 0
              /\ result.tour = TwoOptSeed(n, call.initial_tour)
              /\ result.cost = calculate_tour_cost(distance_matrix,
                                                    result.tour))

\* with an unbounded budget two_opt returned after two scans that each
\* lowered the cost and a third that accepted nothing
C16_Witness ==
    /\ ReturnedResult
    /\ call.op = "two_opt"
    /\ call.max_iterations = Inf
    /\ locals.iteration = 3
    /\ ~locals.improved
    /\ result.cost < calculate_tour_cost(distance_matrix,
                                          TwoOptSeed(n, call.initial_tour))

ByChristofidesCall == locals.of = "christofides"

\* city 0 and the cities the first p edges of the list mst lead to
TreeAfter(mst, p) == {0} \cup {mst[q][2] : q \in 1..p}

\* the matrix of the solver is symmetric
IsSymmetric ==
    \A a, b \in Range(n) : distance_matrix[a][b] = distance_matrix[b][a]

RECURSIVE Connected(_, _)
\* the cities joined to those of S by the undirected edges of E
Connected(E, S) ==
    LET more == S \cup {e[2] : e \in {f \in E : f[1] \in S}}
                  \cup {e[1] : e \in {f \in E : f[2] \in S}}
    IN  IF more = S THEN S ELSE Connected(E, more)

\* the spanning trees of the k cities, as sets of edges <<a, b>>, a < b
SpanningTrees(k) ==
    {E \in SUBSET {ab \in Range(k) \X Range(k) : ab[1] < ab[2]} :
        Cardinality(E) = k - 1 /\ Connected(E, {0}) = Range(k)}

RECURSIVE TreeWeight(_, _)
TreeWeight(m, E) ==
    IF E = {} THEN 0
    ELSE LET e == CHOOSE x \in E : TRUE
         IN  m[e[1]][e[2]] + TreeWeight(m, E \ {e})

RECURSIVE ListWeight(_, _, _)
\* the total weight of the first p edges of the list mst
ListWeight(m, mst, p) ==
    IF p = 0 THEN 0
    ELSE ListWeight(m, mst, p - 1) + m[mst[p][1]][mst[p][2]]

\* C17: compute_mst returns n-1 edges that span the n cities from city 0:
\* each edge (u, v) joins a city u already in the tree to a city v not yet
\* in it (entries whose target is in the tree are dropped), and is a
\* cheapest edge from the tree so far to the outside; on a symmetric
\* matrix the tree has the least total weight of all spanning trees.
C17_PrimBuildsSpanningTree ==
    (Returned /\ ByChristofidesCall) =>
        LET mst == locals.mst
            m == distance_matrix
        IN  /\ Len(mst) = n - 1
            /\ TreeAfter(mst, n - 1) = Range(n)
            /\ \A p \in 1..(n - 1) :
                   LET tree == TreeAfter(mst, p - 1)
                       w == m[mst[p][1]][mst[p][2]]
                   IN  /\ mst[p][1] \in tree
                       /\ mst[p][2] \in Range(n) \ tree
                       /\ \A a \in tree, b \in Range(n) \ tree :
                              w <= m[a][b]
            /\ (IsSymmetric /\ n <= SmallN) =>
                   \A E \in SpanningTrees(n) :
                       ListWeight(m, mst, n - 1) <= TreeWeight(m, E)

\* the tree was grown past a stale entry: city b joined the tree by
\* another edge while the cheaper entry (a, b), pushed when a joined, was
\* still in the heap, to be popped and dropped before a later edge
C17_Witness ==
    /\ ReturnedResult
    /\ ByChristofidesCall
    /\ IsSymmetric
    /\ n = 4
    /\ LET mst == locals.mst
           m == distance_matrix
       IN  \E p, q \in 1..(n - 1), a \in Range(n) :
               /\ q < p
               /\ a \in TreeAfter(mst, q - 1)
               /\ mst[q][1] # a
               /\ m[a][mst[q][2]] < m[mst[p][1]][mst[p][2]]

\* the cities that are an endpoint of an odd number of the edges of mst
OddSet(mst) ==
    {v \in Range(n) :
        (Cardinality({q \in 1..Len(mst) : mst[q][1] = v})
         + Cardinality({q \in 1..Len(mst) : mst[q][2] = v})) % 2 = 1}

\* the cities of the pairs before pair p of the matching
MatchedBefore(matching, p) ==
    {matching[q][s] : q \in 1..(p - 1), s \in 1..2}

\* C18: in christofides the odd-degree vertices of the MST are even in
\* number, min_weight_matching does not raise, and its pairs are a perfect
\* matching of the odd set: every odd vertex is in exactly one pair, no
\* other vertex is in a pair, and each pair (v, u) joins v to the unmatched
\* odd vertex u other than v that minimises matrix[v][u].
C18_MatchingIsPerfectAndGreedy ==
    (Returned /\ ByChristofidesCall) =>
        /\ "raised" \notin DOMAIN locals
        /\ ~IsError(result)
        /\ LET odd == OddSet(locals.mst)
               matching == locals.matching
               m == distance_matrix
           IN  /\ {locals.odd_vertices[q] : q \in 1..Len(locals.odd_vertices)} = odd
               /\ Len(locals.odd_vertices) = Cardinality(odd)
               /\ Cardinality(odd) % 2 = 0
               /\ 2 * Len(matching) = Cardinality(odd)
               /\ MatchedBefore(matching, Len(matching) + 1) = odd
               /\ \A p \in 1..Len(matching) :
                      LET v == matching[p][1]
                          u == matching[p][2]
                          pool == (odd \ MatchedBefore(matching, p)) \ {v}
                      IN  /\ v \in odd \ MatchedBefore(matching, p)
                          /\ u \in pool
                          /\ \A x \in pool : m[v][u] <= m[v][x]

\* a matching of two pairs that leaves an even-degree city out, where the
\* nearest odd vertex of the second pair's v was taken by the first pair
C18_Witness ==
    /\ ReturnedResult
    /\ ByChristofidesCall
    /\ Len(locals.matching) = 2
    /\ Cardinality(OddSet(locals.mst)) < n
    /\ LET matching == locals.matching
           m == distance_matrix
       IN  \E x \in MatchedBefore(matching, 2) :
               m[matching[2][1]][x] < m[matching[2][1]][matching[2][2]]

\* the number of positions of the list of pairs l that join a and b, in
\* either direction
Joining(l, a, b) ==
    Cardinality({q \in 1..Len(l) : {l[q][1], l[q][2]} = {a, b}})

\* the number of steps of the walk that go between a and b
Steps(walk, a, b) ==
    Cardinality({q \in 1..(Len(walk) - 1) : {walk[q], walk[q + 1]} = {a, b}})

\* the number of times b stands in the adjacency list of a
Occurrences(graph, a, b) ==
    Cardinality({q \in 1..Len(At(graph, a)) : At(graph, a)[q] = b})

\* C19: in christofides every vertex of the multigraph of MST and matching
\* edges has even degree, parallel edges are kept, and
\* find_eulerian_circuit returns without error a closed walk from city 0
\* to city 0 that takes every edge of the multigraph exactly once, counted
\* with multiplicity: it has #MST + #matching + 1 entries and visits all
\* n cities.
C19_EulerCircuitCoversMultigraph ==
    (Returned /\ ByChristofidesCall /\ "raised" \notin DOMAIN locals) =>
        LET edges == locals.mst \o locals.matching
            graph == locals.multigraph
            circuit == locals.circuit
        IN  /\ ~IsError(result)
            /\ Len(graph) = n
            /\ \A v \in Range(n) : Len(At(graph, v)) % 2 = 0
            /\ \A q \in 1..Len(edges) :
                   LET a == edges[q][1]
                       b == edges[q][2]
                   IN  /\ Occurrences(graph, a, b) = Joining(edges, a, b)
                       /\ Occurrences(graph, b, a) = Joining(edges, a, b)
                       /\ Steps(circuit, a, b) = Joining(edges, a, b)
            /\ SumLen(graph, 0, n - 1) = 2 * Len(edges)
            /\ Len(circuit) = Len(locals.mst) + Len(locals.matching) + 1
            /\ circuit[1] = 0
            /\ circuit[Len(circuit)] = 0
            /\ \A q \in 1..(Len(circuit) - 1) :
                   Joining(edges, circuit[q], circuit[q + 1]) >= 1
            /\ {circuit[q] : q \in 1..Len(circuit)} = Range(n)

\* a circuit that takes both edges of a parallel pair, one from the MST
\* and one from the matching, and comes through a city more than once
C19_Witness ==
    /\ ReturnedResult
    /\ ByChristofidesCall
    /\ n >= 4
    /\ Len(locals.circuit) > n + 1
    /\ \E q \in 1..Len(locals.matching) :
           /\ Joining(locals.mst, locals.matching[q][1], locals.matching[q][2]) = 1
           /\ Steps(locals.circuit, locals.matching[q][1], locals.matching[q][2]) = 2

RECURSIVE MaskOf(_)
\* the bit mask of the set of cities S
MaskOf(S) ==
    IF S = {} THEN 0
    ELSE LET x == CHOOSE y \in S : TRUE IN Pow2(x) + MaskOf(S \ {x})

RECURSIVE Orderings(_)
\* every list that holds each city of S once
Orderings(S) ==
    IF S = {} THEN {<<>>}
    ELSE UNION {{<<x>> \o t : t \in Orderings(S \ {x})} : x \in S}

\* the least cost of a path from city 0 through every city of S once that
\* ends at last, over all orders of the cities between
MinPathCost(m, S, last) ==
    SetMin({PathSum(m, <<0>> \o t \o <<last>>, Cardinality(S)) :
            t \in Orderings(S \ {0, last})})

\* the subsets held_karp fills: those with city 0 and another city
HKSubsets == {S \in SUBSET Range(n) : 0 \in S /\ S # {0}}

\* C20: after held_karp has filled its table, the table holds the base
\* entry (1, 0) -> (0, -1) and, for every subset S with city 0 and every
\* last in S other than 0, an entry with the least cost of a path from
\* city 0 through the cities of S once each to last, and a predecessor in
\* S minus last that achieves it through its own entry (every entry read
\* was present, none holds infinity); city 0 is the predecessor only when
\* S minus last is {0}.  The tour walks the predecessors back from the
\* final city and starts at city 0.
C20_HeldKarpTable ==
    (Returned /\ ByHeldKarp /\ ~HKTooLarge(n)) =>
        LET m == distance_matrix
            Key(S, last) == <<MaskOf(S), last>>
        IN  /\ DOMAIN dp = {<<1, 0>>}
                   \cup UNION {{Key(S, last) : last \in S \ {0}} : S \in HKSubsets}
            /\ dp[<<1, 0>>] = <<0, -1>>
            /\ \A S \in HKSubsets : \A last \in S \ {0} :
                   LET entry == dp[Key(S, last)]
                       prev == entry[2]
                   IN  /\ entry[1] # Inf
                       /\ entry[1] = MinPathCost(m, S, last)
                       /\ prev \in S \ {last}
                       /\ (prev = 0) <=> (S \ {last} = {0})
                       /\ entry[1] = dp[Key(S \ {last}, prev)][1] + m[prev][last]
            /\ ReturnedResult
            /\ IsTour(result.tour, n)
            /\ result.tour[1] = 0
            /\ \A q \in 2..n :
                   result.tour[q - 1]
                       = dp[Key(Visited(result.tour, q), result.tour[q])][2]
            /\ result.cost
                   = dp[Key(Range(n), result.tour[n])][1] + m[result.tour[n]][0]

\* a table of at least 4 cities with an entry whose predecessor replaced
\* an earlier, strictly dearer candidate
C20_Witness ==
    /\ ReturnedResult
    /\ call.op = "held_karp"
    /\ n >= 4
    /\ Cardinality(DOMAIN dp) = 1 + (n - 1) * Pow2(n - 2)
    /\ \E S \in HKSubsets : \E last \in S \ {0} :
           \E other \in S \ {0, last} :
               /\ other < dp[<<MaskOf(S), last>>][2]
               /\ dp[<<MaskOf(S \ {last}), other>>][1]
                      + distance_matrix[other][last]
                  > dp[<<MaskOf(S), last>>][1]

\* the number of positions of the list l that hold x
CountOf(l, x) == Cardinality({q \in 1..Len(l) : l[q] = x})

\* the lists a and b hold the same entries, each as many times
SameEntries(a, b) ==
    /\ Len(a) = Len(b)
    /\ \A q \in 1..Len(a) : CountOf(a, a[q]) = CountOf(b, a[q])

\* the list t is the list seed rearranged with its first entry in place
KeepsSeed(t, seed) ==
    /\ SameEntries(t, seed)
    /\ seed # <<>> => t[1] = seed[1]

\* C21: in two_opt, whatever initial_tour is (a permutation of 0..n-1 or
\* not), every tour the loop holds and the tour returned has the length
\* and the multiset of entries of initial_tour, and the entry at position
\* 0 stays where it is: the returned tour starts with initial_tour[0].
C21_TwoOptRearrangesSeed ==
    (locals.of = "two_opt") =>
        LET seed == TwoOptSeed(n, locals.initial_tour)
        IN  /\ KeepsSeed(locals.tour, seed)
            /\ (Returned /\ call.op = "two_opt") =>
                   /\ ReturnedResult
                   /\ result.tour = locals.tour
                   /\ KeepsSeed(result.tour, seed)

\* in the loop, after two accepted reversals, of a seed that is no
\* permutation of the cities
C21_Witness ==
    /\ pc = "two_opt"
    /\ locals.of = "two_opt"
    /\ locals.iteration >= 2
    /\ locals.improved
    /\ locals.initial_tour # NoList
    /\ ~IsTour(TwoOptSeed(n, locals.initial_tour), n)
    /\ locals.tour # TwoOptSeed(n, locals.initial_tour)

====
